---- MODULE Spec2Model ----
(***************************************************************************)
(* Model of the world-snapshot decoder of gtworld-r (src/src/lib.rs):      *)
(* World::parse, World::update_tile, World::get_extra_tile_data and the    *)
(* accessors of World.  A parse call is a state machine over an immutable  *)
(* byte buffer `data` and a cursor offset `pos`; the stages are the        *)
(* header, one step per tile record, the dropped-item list and the weather *)
(* trailer.  A process abort (panic) is the outcome "Panic".  `call` holds  *)
(* the arguments of the call in progress and `other` the state of a second *)
(* parse call that shares the catalog.                                     *)
(***************************************************************************)
EXTENDS Integers, Sequences, FiniteSets, TLC

VARIABLES data, catalog, world, pos, count, pc, result, err, call, other

vars == <<data, catalog, world, pos, count, pc, result, err, call, other>>

(***************************************************************************)
(* Bounds of the input space.                                              *)
(***************************************************************************)
MaxDim == 2
MaxTiles == 2
MaxDrops == 2

(***************************************************************************)
(* Program constants.                                                      *)
(***************************************************************************)
MinVersion == 25
MaxTileCount == 65025
LockSkipItemId == 5814
PartyProjectorId == 15376
LatticeFenceRootsId == 8642
WeatherMax == 78

U16Mod == 65536

(* An index of 2^31 or more, which no Vec of tiles reaches.                *)
IndexHuge == 2147483647

(***************************************************************************)
(* Little-endian byte cursor (std::io::Cursor<&[u8]> with byteorder).      *)
(* Offsets are 0-based; d[p + 1] is the byte at offset p.                  *)
(***************************************************************************)
CanRead_before_last(d, p, n) == n = 0 \/ p + n < Len(d)

CanRead(d, p, n) == n = 0 \/ p + n <= Len(d)

read_u8(d, p) == d[p + 1]

read_u16(d, p) == d[p + 1] + 256 * d[p + 2]

read_u32(d, p) == d[p + 1] + 256 * d[p + 2] + 65536 * d[p + 3] + 16777216 * d[p + 4]

read_exact(d, p, n) == SubSeq(d, p + 1, p + n)

(* String::from_utf8_lossy on the byte values the inputs use: an ASCII     *)
(* byte is kept, a byte that starts no UTF-8 sequence becomes U+FFFD.       *)
from_utf8_lossy(bytes) == [i \in 1..Len(bytes) |-> IF bytes[i] < 128 THEN bytes[i] ELSE 65533]

(***************************************************************************)
(* TileFlags: 16 named bits of a u16.                                      *)
(***************************************************************************)
FlagNames ==
  <<"HAS_EXTRA_DATA", "HAS_PARENT", "WAS_SPLICED", "WILL_SPAWN_SEEDS_TOO",
    "IS_SEEDLING", "FLIPPED_X", "IS_ON", "IS_OPEN_TO_PUBLIC", "BG_IS_ON",
    "FG_ALT_MODE", "IS_WET", "GLUED", "ON_FIRE", "PAINTED_RED",
    "PAINTED_GREEN", "PAINTED_BLUE">>

RECURSIVE Pow2(_)
Pow2(n) == IF n = 0 THEN 1 ELSE 2 * Pow2(n - 1)

BitSet(v, i) == (v \div Pow2(i)) % 2 = 1

from_bits_truncate_low_byte(v) == {FlagNames[i + 1] : i \in {j \in 0..7 : BitSet(v, j)}}

from_bits_truncate(v) == {FlagNames[i + 1] : i \in {j \in 0..15 : BitSet(v, j)}}

(* TileFlags::bits(): the u16 whose set bits are the flags of the set.     *)
RECURSIVE bits_from(_, _)
bits_from(flags, i) ==
  IF i = 16 THEN 0
  ELSE (IF FlagNames[i + 1] \in flags THEN Pow2(i) ELSE 0) + bits_from(flags, i + 1)

bits(flags) == bits_from(flags, 0)

TileFlags_empty == {}

(***************************************************************************)
(* WeatherType::from(u16).                                                 *)
(***************************************************************************)
WeatherNames ==
  <<"Default", "Sunset", "Night", "Desert", "Sunny", "RainyCity", "Harvest",
    "Mars", "Spooky", "Maw", "Blank", "Snowy", "Growch", "GrowchHappy",
    "Undersea", "Warp", "Comet", "Comet2", "Party", "Pineapple",
    "SnowyNight", "Spring", "Wolf", "NotInitialized", "PurpleHaze",
    "FireHaze", "GreenHaze", "AquaHaze", "CustomHaze", "CustomItems",
    "Pagoda", "Apocalypse", "Jungle", "BalloonWarz", "Background", "Autumn",
    "Hearth", "StPatricks", "IceAge", "Volcano", "FloatingIslands", "Mascot",
    "DigitalRain", "MonoChrome", "Treasure", "Surgery", "Bountiful",
    "Meteor", "Stars", "Ascended", "Destroyed", "GrowtopiaSign", "Dungeon",
    "LegendaryCity", "BloodDragon", "PopCity", "Anzu", "TmntCity", "RadCity",
    "Plaze", "Nebula", "ProtoStar", "DarkMountains", "Ac15", "MountGrowMore",
    "CrackInReality", "LnyNian", "RaymanLock", "Steampunk", "RealmOfSpirits",
    "Blackhole", "Gems", "HolidayHaven", "FenyxLock", "EnchantedLock",
    "RoyalEnchantedLock", "NeptunesAtlantis", "PinuskiPetalPerfectHaven",
    "Candyland">>

WeatherType_from_wrapping(v) == WeatherNames[(v % (WeatherMax + 1)) + 1]

WeatherType_from(v) == IF v <= WeatherMax THEN WeatherNames[v + 1] ELSE "Default"

(***************************************************************************)
(* Data model: Tile, Dropped, World.                                       *)
(***************************************************************************)
Basic == [tag |-> "Basic"]

Tile_new(fg, bg, parent, flags, flags_number, x, y) ==
  [foreground_item_id |-> fg, background_item_id |-> bg,
   parent_block_index |-> parent, flags |-> flags,
   flags_number |-> flags_number, tile_type |-> Basic, x |-> x, y |-> y]

Dropped_clear == [items_count |-> 0, last_dropped_item_uid |-> 0, items |-> <<>>]

ExitName == <<69, 88, 73, 84>>

World_new ==
  [name |-> ExitName, width |-> 0, height |-> 0, tile_count |-> 0,
   tiles |-> <<>>, dropped |-> Dropped_clear, base_weather |-> "Default",
   current_weather |-> "Default", is_error |-> FALSE, version |-> 0,
   flags |-> 0]

reset_keeps_dropped(w) ==
  [w EXCEPT !.name = ExitName, !.width = 0, !.height = 0, !.tile_count = 0,
            !.tiles = <<>>,
            !.base_weather = "Default", !.current_weather = "Default",
            !.is_error = FALSE]

reset(w) ==
  [w EXCEPT !.name = ExitName, !.width = 0, !.height = 0, !.tile_count = 0,
            !.tiles = <<>>, !.dropped = Dropped_clear,
            !.base_weather = "Default", !.current_weather = "Default",
            !.is_error = FALSE]

None == [some |-> FALSE]

Some(v) == [some |-> TRUE, value |-> v]

(* u32 arithmetic of the release build: y * width + x wraps modulo 2^32.   *)
(* The product is formed byte by byte (little-endian limbs) and cut to 32  *)
(* bits; u32 operands are below 2^31 in every input.                       *)
Limb(v, i) == (v \div Pow2(8 * i)) % 256

ColumnSum(a, b, c, k) ==
  LET term(i) == Limb(a, i) * Limb(b, k - i)
  IN Limb(c, k) + (CASE k = 0 -> term(0)
                     [] k = 1 -> term(0) + term(1)
                     [] k = 2 -> term(0) + term(1) + term(2)
                     [] OTHER -> term(0) + term(1) + term(2) + term(3))

wrapping_mul_add(a, b, c) ==
  LET s0 == ColumnSum(a, b, c, 0)
      s1 == ColumnSum(a, b, c, 1) + (s0 \div 256)
      s2 == ColumnSum(a, b, c, 2) + (s1 \div 256)
      s3 == ColumnSum(a, b, c, 3) + (s2 \div 256)
  IN IF s3 % 256 >= 128 THEN IndexHuge
     ELSE (s0 % 256) + 256 * (s1 % 256) + 65536 * (s2 % 256) + 16777216 * (s3 % 256)

(* a * b + c does not fit 32 bits: a carry leaves the fourth byte or a     *)
(* product of limbs lies above it.  A build with overflow checks panics    *)
(* there; a build without them wraps.                                      *)
mul_add_overflows(a, b, c) ==
  LET s0 == ColumnSum(a, b, c, 0)
      s1 == ColumnSum(a, b, c, 1) + (s0 \div 256)
      s2 == ColumnSum(a, b, c, 2) + (s1 \div 256)
      s3 == ColumnSum(a, b, c, 3) + (s2 \div 256)
  IN \/ s3 \div 256 > 0
     \/ \E i \in 0..3, j \in 0..3 : i + j >= 4 /\ Limb(a, i) * Limb(b, j) > 0

RowMajor(w, x, y) == wrapping_mul_add(y, w.width, x)

get_tile_no_x_check(w, x, y) ==
  IF y >= w.height THEN None
  ELSE LET index == RowMajor(w, x, y)
       IN IF index < Len(w.tiles) THEN Some(w.tiles[index + 1]) ELSE None

get_tile(w, x, y) ==
  IF x >= w.width \/ y >= w.height THEN None
  ELSE LET index == RowMajor(w, x, y)
       IN IF index < Len(w.tiles) THEN Some(w.tiles[index + 1]) ELSE None

tile_index(w, x, y) ==
  IF x >= w.width \/ y >= w.height THEN None ELSE Some(RowMajor(w, x, y))

is_valid(w) ==
  /\ w.width > 0
  /\ w.height > 0
  /\ ~w.is_error
  /\ Len(w.tiles) = wrapping_mul_add(w.width, w.height, 0)

total_tiles(w) == wrapping_mul_add(w.width, w.height, 0)

(***************************************************************************)
(* ItemDatabase (external): item_count and a partial map id -> item.       *)
(***************************************************************************)
get_item_or_default(cat, id) ==
  IF id \in DOMAIN cat.items THEN Some(cat.items[id]) ELSE Some([grow_time |-> 0, xml |-> FALSE])

get_item(cat, id) == IF id \in DOMAIN cat.items THEN Some(cat.items[id]) ELSE None

ends_with_xml(item) == item.xml

(***************************************************************************)
(* The extra-data table of get_extra_tile_data as wire layouts.  A layout  *)
(* is a sequence of field reads:                                           *)
(*   <<"u", n>>      n-byte little-endian unsigned integer                 *)
(*   <<"i", n>>      n-byte little-endian signed integer                   *)
(*   <<"s16">>       u16 length, then that many bytes of lossy UTF-8 text  *)
(*   <<"bytes", n>>  read_exact of n raw bytes                             *)
(*   <<"skip", n>>   set_position(position + n), never checked             *)
(*   <<"arr", cw, div, between, elem>>  a cw-byte count c, the layout      *)
(*                   `between`, then c / div repetitions of `elem`         *)
(***************************************************************************)
U1 == <<"u", 1>>

U2 == <<"u", 2>>

U4 == <<"u", 4>>

I4 == <<"i", 4>>

S16 == <<"s16">>

Bytes(n) == <<"bytes", n>>

Skip(n) == <<"skip", n>>

Arr(cw, div, between, elem) == <<"arr", cw, div, between, elem>>

MappedTypes ==
  (1..81) \ {5, 13, 22, 29, 46, 64, 70, 71, 76, 78}

(* The arms whose reads carry .context(..)? ; every other arm unwraps.     *)
CheckedTypes == {1, 2, 3, 4, 9, 69}

VariantName(t) ==
  CASE t = 1 -> "Sign" [] t = 2 -> "Door" [] t = 3 -> "Lock" [] t = 4 -> "Seed"
    [] t = 6 -> "Mailbox" [] t = 7 -> "Bulletin" [] t = 8 -> "Dice"
    [] t = 9 -> "ChemicalSource" [] t = 10 -> "AchievementBlock"
    [] t = 11 -> "HearthMonitor" [] t = 12 -> "DonationBox"
    [] t = 14 -> "Mannequin" [] t = 15 -> "BunnyEgg" [] t = 16 -> "GamePack"
    [] t = 17 -> "GameGenerator" [] t = 18 -> "XenoniteCrystal"
    [] t = 19 -> "PhoneBooth" [] t = 20 -> "Crystal"
    [] t = 21 -> "CrimeInProgress" [] t = 23 -> "DisplayBlock"
    [] t = 24 -> "VendingMachine" [] t = 25 -> "FishTankPort"
    [] t = 26 -> "SolarCollector" [] t = 27 -> "Forge"
    [] t = 28 -> "GivingTree" [] t = 30 -> "SteamOrgan" [] t = 31 -> "SilkWorm"
    [] t = 32 -> "SewingMachine" [] t = 33 -> "CountryFlag"
    [] t = 34 -> "LobsterTrap" [] t = 35 -> "PaintingEasel"
    [] t = 36 -> "PetBattleCage" [] t = 37 -> "PetTrainer"
    [] t = 38 -> "SteamEngine" [] t = 39 -> "LockBot"
    [] t = 40 -> "WeatherMachine" [] t = 41 -> "SpiritStorageUnit"
    [] t = 42 -> "DataBedrock" [] t = 43 -> "Shelf" [] t = 44 -> "VipEntrance"
    [] t = 45 -> "ChallangeTimer" [] t = 47 -> "FishWallMount"
    [] t = 48 -> "Portrait" [] t = 49 -> "GuildWeatherMachine"
    [] t = 50 -> "FossilPrepStation" [] t = 51 -> "DnaExtractor"
    [] t = 52 -> "Howler" [] t = 53 -> "ChemsynthTank"
    [] t = 54 -> "StorageBlock" [] t = 55 -> "CookingOven"
    [] t = 56 -> "AudioRack" [] t = 57 -> "GeigerCharger"
    [] t = 58 -> "AdventureBegins" [] t = 59 -> "TombRobber"
    [] t = 60 -> "BalloonOMatic" [] t = 61 -> "TrainingPort"
    [] t = 62 -> "ItemSucker" [] t = 63 -> "CyBot" [] t = 65 -> "GuildItem"
    [] t = 66 -> "Growscan" [] t = 67 -> "ContainmentFieldPowerNode"
    [] t = 68 -> "SpiritBoard" [] t = 69 -> "TesseractManipulator"
    [] t = 72 -> "StormyCloud" [] t = 73 -> "TemporaryPlatform"
    [] t = 74 -> "SafeVault" [] t = 75 -> "AngelicCountingCloud"
    [] t = 77 -> "InfinityWeatherMachine" [] t = 79 -> "PineappleGuzzler"
    [] t = 80 -> "KrakenGalaticBlock" [] t = 81 -> "FriendsEntrance"
    [] OTHER -> "Basic"

VariantLayout(t) ==
  CASE t = 1 -> <<S16, U1>>
    [] t = 2 -> <<S16, U4>>
    [] t = 3 -> <<U1, U4, Arr(4, 1, <<>>, <<U4>>), U1, Bytes(7)>>
    [] t = 4 -> <<U4, U1>>
    [] t \in {6, 7, 12} -> <<S16, S16, S16, U1>>
    [] t \in {8, 16, 66} -> <<U1>>
    [] t = 9 -> <<U4>>
    [] t = 10 -> <<U4, U1>>
    [] t = 11 -> <<U4, S16>>
    [] t = 14 -> <<S16, U1, U4, U2, U2, U2, U2, U2, U2, U2, U2, U2>>
    [] t \in {15, 23, 27, 38, 39, 40, 41, 50, 57, 73} -> <<U4>>
    [] t \in {17, 34, 45, 51, 52, 58, 59, 74, 79} -> <<>>
    [] t = 18 -> <<U1, U4>>
    [] t = 19 -> <<U2, U2, U2, U2, U2, U2, U2, U2, U2>>
    [] t \in {20, 33} -> <<S16>>
    [] t = 21 -> <<S16, U4, U1>>
    [] t = 24 -> <<U4, I4>>
    [] t = 25 -> <<U1, Arr(4, 2, <<>>, <<U4, U4>>)>>
    [] t = 26 -> <<Bytes(5)>>
    [] t = 28 -> <<U2, U4>>
    [] t = 30 -> <<U1, U4>>
    [] t = 31 -> <<U1, S16, U4, U4, U4, U1, U4, U4>>
    [] t = 32 -> <<Arr(2, 1, <<>>, <<U4>>)>>
    [] t = 35 -> <<U4, S16>>
    [] t = 36 -> <<S16, Bytes(12)>>
    [] t = 37 -> <<S16, Arr(4, 1, <<U4>>, <<U4>>)>>
    [] t = 42 -> <<Skip(21)>>
    [] t = 43 -> <<U4, U4, U4, U4>>
    [] t = 44 -> <<U1, U4, Arr(4, 1, <<>>, <<U4>>)>>
    [] t = 47 -> <<S16, U4, U1>>
    [] t = 48 -> <<S16, U4, U4, U4, U4, U4, U4, U4, U2, U2>>
    [] t = 49 -> <<U4, U4, U1>>
    [] t = 53 -> <<U4, U4>>
    [] t = 54 -> <<Arr(2, 13, <<>>, <<Skip(3), U4, Skip(2), U4>>)>>
    [] t = 55 -> <<U4, Arr(4, 1, <<>>, <<U4, U4>>), U4, U4, U4>>
    [] t = 56 -> <<S16, U4>>
    [] t = 60 -> <<U4, U1>>
    [] t = 61 -> <<U4, U2, U4, U4, U4, U4>>
    [] t = 62 -> <<U4, U4, U2, U4>>
    [] t = 63 -> <<U4, U4, Arr(4, 1, <<>>, <<U4, U4, Skip(7)>>)>>
    [] t = 65 -> <<Skip(17)>>
    [] t = 67 -> <<U4, Arr(4, 1, <<>>, <<U4>>)>>
    [] t \in {68, 72} -> <<U4, U4, U4>>
    [] t = 69 -> <<U4, U4, U4, U4>>
    [] t = 75 -> <<U4, U2, U1>>
    [] t = 77 -> <<U4, Arr(4, 1, <<>>, <<U4>>)>>
    [] t = 80 -> <<U1, U4, U1, U1, U1>>
    [] t = 81 -> <<U4, U2, U2>>
    [] OTHER -> <<>>

RECURSIVE ReadLE(_, _, _)
ReadLE(d, p, n) == IF n = 0 THEN 0 ELSE d[p + 1] + 256 * ReadLE(d, p + 1, n - 1)

ReadSigned(d, p, n) ==
  LET v == ReadLE(d, p, n)
  IN IF v >= Pow2(8 * n - 1) THEN v - Pow2(8 * n) ELSE v

RECURSIVE Repeat(_, _)
Repeat(layout, n) == IF n = 0 THEN <<>> ELSE layout \o Repeat(layout, n - 1)

Min(a, b) == IF a < b THEN a ELSE b

(* Runs a layout from offset p.  A read past the end of the buffer stops   *)
(* the run with ok = FALSE; a loop of more iterations than the buffer has  *)
(* bytes is cut there, where its next read fails anyway.                   *)
RECURSIVE run_layout(_, _, _, _)
run_layout(d, p, ops, vals) ==
  IF ops = <<>> THEN [ok |-> TRUE, pos |-> p, vals |-> vals]
  ELSE
    LET op == Head(ops)
        rest == Tail(ops)
        fail == [ok |-> FALSE, pos |-> p, vals |-> vals]
    IN CASE op[1] = "u" ->
              IF CanRead(d, p, op[2])
              THEN run_layout(d, p + op[2], rest, Append(vals, ReadLE(d, p, op[2])))
              ELSE fail
         [] op[1] = "i" ->
              IF CanRead(d, p, op[2])
              THEN run_layout(d, p + op[2], rest, Append(vals, ReadSigned(d, p, op[2])))
              ELSE fail
         [] op[1] = "s16" ->
              IF ~CanRead(d, p, 2) THEN fail
              ELSE LET n == read_u16(d, p)
                   IN IF CanRead(d, p + 2, n)
                      THEN run_layout(d, p + 2 + n, rest,
                                      Append(vals, from_utf8_lossy(read_exact(d, p + 2, n))))
                      ELSE fail
         [] op[1] = "bytes" ->
              IF CanRead(d, p, op[2])
              THEN run_layout(d, p + op[2], rest, Append(vals, read_exact(d, p, op[2])))
              ELSE fail
         [] op[1] = "skip" -> run_layout(d, p + op[2], rest, vals)
         [] op[1] = "arr" ->
              IF ~CanRead(d, p, op[2]) THEN fail
              ELSE LET c == ReadLE(d, p, op[2])
                       n == Min(c \div op[3], Len(d) + 1)
                   IN run_layout(d, p + op[2], op[4] \o Repeat(op[5], n) \o rest,
                                 Append(vals, c))

(***************************************************************************)
(* The generic-decode collaborator (ciborium), seen only through whether a *)
(* block decodes.  An empty block is an unexpected end of input; a first   *)
(* byte 0x00..0x17 is a complete unsigned integer; any other first byte of *)
(* the blocks the inputs use (0xff, a lone break) is rejected.  The typed  *)
(* decode wants a map with the fields of PetBattleCageExtra: the canonical *)
(* encoding of {damage: 0, pet: []} below.                                 *)
(***************************************************************************)
cbor_from_reader(block) == Len(block) > 0 /\ block[1] <= 23

PetBattleCageExtraBytes ==
  <<162, 102, 100, 97, 109, 97, 103, 101, 0, 99, 112, 101, 116, 128>>

cbor_from_reader_extra(block) ==
  /\ Len(block) >= Len(PetBattleCageExtraBytes)
  /\ SubSeq(block, 1, Len(PetBattleCageExtraBytes)) = PetBattleCageExtraBytes

(* A u32-length-prefixed block handed to the collaborator; the two reads   *)
(* are unwrapped, the decode error is returned.                            *)
read_cbor_block(d, p, typed) ==
  IF ~CanRead(d, p, 4) THEN [res |-> "Panic", pos |-> p]
  ELSE LET cbor_size == read_u32(d, p)
       IN IF ~CanRead(d, p + 4, cbor_size) THEN [res |-> "Panic", pos |-> p + 4]
          ELSE LET cbor_raw == read_exact(d, p + 4, cbor_size)
                   good == IF typed THEN cbor_from_reader_extra(cbor_raw)
                           ELSE cbor_from_reader(cbor_raw)
               IN [res |-> IF good THEN "Ok" ELSE "Err", pos |-> p + 4 + cbor_size]

(* ready_to_harvest of Seed (item.grow_time <= time_passed) and of         *)
(* ChemicalSource (time_passed >= item.grow_time).                         *)
ready_to_harvest_strict(item, time_passed) == item.grow_time < time_passed

ready_to_harvest(item, time_passed) == item.grow_time <= time_passed

unknown_tile_type_rejected(item_type, p) ==
  [res |-> "Err", cause |-> "unknown tile type", pos |-> p, tile_type |-> Basic]

(* The `_` arm: an unknown discriminant is warned about and left Basic.     *)
unknown_tile_type(item_type, p) ==
  [res |-> "Ok", cause |-> "", pos |-> p, tile_type |-> Basic]

lock_trailing_skip_always(fg) == 16

(* The 16 bytes skipped after the Lock payload of item 5814.               *)
lock_trailing_skip(fg) == IF fg = LockSkipItemId THEN 16 ELSE 0

ExtraOutcome(res, cause, q, tt) == [res |-> res, cause |-> cause, pos |-> q, tile_type |-> tt]

(* The end of a mapped arm whose reads `run` succeeded: the catalog lookup *)
(* of Seed and ChemicalSource, the conditional skip of Lock, the nested    *)
(* block of PetBattleCage, and the assignment of tile.tile_type.           *)
extra_tile_type(tile, item_type, v, q, item, blk) ==
  CASE item_type = 3 ->
         ExtraOutcome("Ok", "",
                      q + lock_trailing_skip(tile.foreground_item_id),
                      [tag |-> "Lock", settings |-> v[1], owner_uid |-> v[2],
                       access_count |-> v[3], access_uids |-> SubSeq(v, 4, Len(v) - 2),
                       minimum_level |-> v[Len(v) - 1]])
    [] item_type = 4 ->
         IF ~item.some
         THEN ExtraOutcome("Err", "Failed to get item", q, tile.tile_type)
         ELSE ExtraOutcome("Ok", "", q,
                           [tag |-> "Seed", time_passed |-> v[1], item_on_tree |-> v[2],
                            ready_to_harvest |-> ready_to_harvest(item.value, v[1]),
                            elapsed |-> v[1]])
    [] item_type = 9 ->
         IF ~item.some
         THEN ExtraOutcome("Err", "Failed to get item", q, tile.tile_type)
         ELSE ExtraOutcome("Ok", "", q,
                           [tag |-> "ChemicalSource", time_passed |-> v[1],
                            ready_to_harvest |-> ready_to_harvest(item.value, v[1]),
                            elapsed |-> v[1]])
    [] item_type = 36 ->
         CASE blk.res = "Panic" -> ExtraOutcome("Panic", "unwrap", blk.pos, tile.tile_type)
           [] blk.res = "Err" -> ExtraOutcome("Err", "CBOR decode error", blk.pos, tile.tile_type)
           [] OTHER -> ExtraOutcome("Ok", "", blk.pos, [tag |-> "PetBattleCage", fields |-> v])
    [] OTHER ->
         ExtraOutcome("Ok", "", q, [tag |-> VariantName(item_type), fields |-> v])

(* A mapped arm: a failed read returns an error where the arm uses         *)
(* context(..)? and aborts where it unwraps.                               *)
mapped_tile_type(tile, d, item_type, run, cat) ==
  IF ~run.ok
  THEN IF item_type \in CheckedTypes
       THEN ExtraOutcome("Err", "Failed to read extra tile data", run.pos, tile.tile_type)
       ELSE ExtraOutcome("Panic", "unwrap", run.pos, tile.tile_type)
  ELSE extra_tile_type(tile, item_type, run.vals, run.pos,
                       get_item(cat, tile.foreground_item_id),
                       IF item_type = 36 THEN read_cbor_block(d, run.pos, TRUE)
                       ELSE [res |-> "Ok", pos |-> run.pos])

get_extra_tile_data(tile, d, p, item_type, cat) ==
  IF item_type \notin MappedTypes
  THEN unknown_tile_type(item_type, p)
  ELSE mapped_tile_type(tile, d, item_type,
                        run_layout(d, p, VariantLayout(item_type), <<>>), cat)

HarvestResult(res, value) == [res |-> res, value |-> value]

harvestable_stored_flag(tile, cat) ==
  IF tile.tile_type.tag \in {"Seed", "ChemicalSource"}
  THEN HarvestResult("Ok", tile.tile_type.ready_to_harvest)
  ELSE HarvestResult("Ok", FALSE)

(* Tile::harvestable: the stored flag, else the elapsed seconds against    *)
(* the grow_time of the foreground item in the catalog passed in.          *)
harvestable(tile, cat) ==
  IF tile.tile_type.tag \in {"Seed", "ChemicalSource"}
  THEN IF tile.tile_type.ready_to_harvest
       THEN HarvestResult("Ok", TRUE)
       ELSE LET item == get_item(cat, tile.foreground_item_id)
            IN IF ~item.some
               THEN HarvestResult("Err", FALSE)
               ELSE HarvestResult("Ok", tile.tile_type.elapsed >= item.value.grow_time)
  ELSE HarvestResult("Ok", FALSE)

is_tile_harvestable(w, tile, cat) == harvestable(tile, cat)

is_harvestable(w, x, y, cat) ==
  LET tile == get_tile(w, x, y)
  IN IF tile.some THEN is_tile_harvestable(w, tile.value, cat) ELSE HarvestResult("Ok", FALSE)

(* item_count as u16                                                       *)
item_count_u16(cat) == cat.item_count % U16Mod

item_id_out_of_range_fg_only(fg, bg, cat) == fg > item_count_u16(cat)

item_id_out_of_range(fg, bg, cat) == fg > item_count_u16(cat) \/ bg > item_count_u16(cat)

has_cbor_data_xml_only(item, fg) == ends_with_xml(item)

has_cbor_data(item, fg) == ends_with_xml(item) \/ fg \in {PartyProjectorId, LatticeFenceRootsId}

store_tile_always_append(w, tile, replace) ==
  [res |-> "Ok", world |-> [w EXCEPT !.tiles = Append(w.tiles, tile)]]

(* Stores the decoded tile: append, or overwrite at its row-major index.   *)
store_tile(w, tile, replace) ==
  IF replace
  THEN LET index == RowMajor(w, tile.x, tile.y)
       IN IF index < Len(w.tiles)
          THEN [res |-> "Ok", world |-> [w EXCEPT !.tiles[index + 1] = tile]]
          ELSE [res |-> "Err", world |-> w]
  ELSE [res |-> "Ok", world |-> [w EXCEPT !.tiles = Append(w.tiles, tile)]]

TileOutcome(res, cause, w, q) == [res |-> res, cause |-> cause, world |-> w, pos |-> q]

(* The side-channel block was read (blk): store the tile.                  *)
update_tile_store(w, blk, st) ==
  CASE blk.res = "Panic" -> TileOutcome("Panic", "unwrap", w, blk.pos)
    [] blk.res = "Err" -> TileOutcome("Err", "CBOR decode error", w, blk.pos)
    [] st.res = "Err" -> TileOutcome("Err", "Tile index out of bounds", w, blk.pos)
    [] OTHER -> TileOutcome("Ok", "", st.world, blk.pos)

(* The extra data was decoded (extra): resolve the foreground item and     *)
(* read the side-channel block of an XML-classified item.                  *)
update_tile_item(w, tile, d, replace, extra, db_item) ==
  IF extra.res # "Ok" THEN TileOutcome(extra.res, extra.cause, w, extra.pos)
  ELSE IF ~db_item.some THEN TileOutcome("Err", "Failed to get item", w, extra.pos)
  ELSE update_tile_store(w,
                         IF has_cbor_data(db_item.value, tile.foreground_item_id)
                         THEN read_cbor_block(d, extra.pos, FALSE)
                         ELSE [res |-> "Ok", pos |-> extra.pos],
                         store_tile(w, [tile EXCEPT !.tile_type = extra.tile_type], replace))

(* The parent reference was consumed, the cursor is at p1: the extra data. *)
update_tile_extra_unflagged(w, tile, d, p1, replace, cat) ==
  IF ~CanRead(d, p1, 1)
  THEN TileOutcome("Err", "Failed to read extra tile type", w, p1)
  ELSE update_tile_item(w, tile, d, replace,
                        get_extra_tile_data(tile, d, p1 + 1, read_u8(d, p1), cat),
                        get_item(cat, tile.foreground_item_id))

update_tile_extra(w, tile, d, p1, replace, cat) ==
  IF "HAS_EXTRA_DATA" \in tile.flags /\ ~CanRead(d, p1, 1)
  THEN TileOutcome("Err", "Failed to read extra tile type", w, p1)
  ELSE update_tile_item(w, tile, d, replace,
                        IF "HAS_EXTRA_DATA" \in tile.flags
                        THEN get_extra_tile_data(tile, d, p1 + 1, read_u8(d, p1), cat)
                        ELSE [res |-> "Ok", cause |-> "", pos |-> p1, tile_type |-> Basic],
                        get_item(cat, tile.foreground_item_id))

(* The core fields were read into tile, the cursor is at p: the id check   *)
(* and the parent reference.                                               *)
update_tile_checked(w, tile, d, p, replace, cat) ==
  IF item_id_out_of_range(tile.foreground_item_id, tile.background_item_id, cat)
  THEN TileOutcome("Err", "Item ID out of range",
                   [w EXCEPT !.is_error = TRUE,
                             !.tiles = Append(w.tiles,
                                              Tile_new(0, 0, 0, tile.flags, tile.flags_number,
                                                       tile.x, tile.y))],
                   p)
  ELSE IF "HAS_PARENT" \in tile.flags /\ ~CanRead(d, p, 2)
  THEN TileOutcome("Err", "Failed to read parent data", w, p)
  ELSE update_tile_extra(w, tile, d, IF "HAS_PARENT" \in tile.flags THEN p + 2 ELSE p,
                         replace, cat)

(* World::update_tile for the tile at (x, y), cursor at offset p.          *)
update_tile(w, x, y, d, p, replace, cat) ==
  IF ~CanRead(d, p, 2) THEN TileOutcome("Err", "Failed to read foreground item ID", w, p)
  ELSE IF ~CanRead(d, p + 2, 2)
  THEN TileOutcome("Err", "Failed to read background item ID", w, p + 2)
  ELSE IF ~CanRead(d, p + 4, 2)
  THEN TileOutcome("Err", "Failed to read parent block index", w, p + 4)
  ELSE IF ~CanRead(d, p + 6, 2) THEN TileOutcome("Err", "Failed to read tile flags", w, p + 6)
  ELSE update_tile_checked(w,
                           Tile_new(read_u16(d, p), read_u16(d, p + 2), read_u16(d, p + 4),
                                    from_bits_truncate(read_u16(d, p + 6)), read_u16(d, p + 6),
                                    x, y),
                           d, p + 8, replace, cat)

(***************************************************************************)
(* World::parse, stage by stage.  Every stage operator returns the outcome *)
(* res ("Ok" to go on, "Err" for a returned error, "Panic" for an abort),  *)
(* the context chain of the error, the World and the cursor offset.        *)
(***************************************************************************)
Outcome(res, e, w, q) == [res |-> res, err |-> e, world |-> w, pos |-> q]

version_supported_above(version) == ~(version <= MinVersion)

version_supported(version) == ~(version < MinVersion)

tile_count_too_large_above(tile_count) == tile_count > MaxTileCount + 1

(* The sanity ceiling on the header's tile_count.                          *)
tile_count_too_large(tile_count) == tile_count > MaxTileCount

(* reset() and the header: version, flags, name, width, height,            *)
(* tile_count, the 5 skipped bytes and the tile-count guard.               *)
parse_header(w0, d) ==
  LET w == reset(w0)
  IN IF ~CanRead(d, 0, 2) THEN Outcome("Err", <<"Failed to read version">>, w, 0)
     ELSE LET version == read_u16(d, 0)
          IN IF ~version_supported(version)
             THEN Outcome("Err", <<"Unsupported version">>, [w EXCEPT !.is_error = TRUE], 2)
             ELSE
               LET w1 == [w EXCEPT !.version = version]
               IN IF ~CanRead(d, 2, 4) THEN Outcome("Err", <<"Failed to read world flags">>, w1, 2)
                  ELSE
                    LET w2 == [w1 EXCEPT !.flags = read_u32(d, 2)]
                    IN IF ~CanRead(d, 6, 2)
                       THEN Outcome("Err", <<"Failed to read name length">>, w2, 6)
                       ELSE
                         LET str_len == read_u16(d, 6)
                             q == 8 + str_len
                         IN IF ~CanRead(d, 8, str_len)
                            THEN Outcome("Err", <<"Failed to read world name">>, w2, 8)
                            ELSE IF ~CanRead(d, q, 4)
                            THEN Outcome("Err", <<"Failed to read world width">>, w2, q)
                            ELSE IF ~CanRead(d, q + 4, 4)
                            THEN Outcome("Err", <<"Failed to read world height">>,
                                         [w2 EXCEPT !.width = read_u32(d, q)], q + 4)
                            ELSE IF ~CanRead(d, q + 8, 4)
                            THEN Outcome("Err", <<"Failed to read tile count">>,
                                         [w2 EXCEPT !.width = read_u32(d, q),
                                                    !.height = read_u32(d, q + 4)], q + 8)
                            ELSE
                              LET w3 == [w2 EXCEPT !.width = read_u32(d, q),
                                                   !.height = read_u32(d, q + 4),
                                                   !.tile_count = read_u32(d, q + 8),
                                                   !.name = from_utf8_lossy(read_exact(d, 8, str_len))]
                              IN IF tile_count_too_large(w3.tile_count)
                                 THEN Outcome("Err", <<"Tile count too large">>,
                                              [w3 EXCEPT !.is_error = TRUE], q + 17)
                                 ELSE Outcome("Ok", <<>>, w3, q + 17)

(* The error of update_tile seen from parse: is_error is set and the        *)
(* context "Failed to parse tile" is added.                                *)
tile_result(r) ==
  CASE r.res = "Ok" -> Outcome("Ok", <<>>, r.world, r.pos)
    [] r.res = "Err" ->
         Outcome("Err", <<"Failed to parse tile", r.cause>>,
                 [r.world EXCEPT !.is_error = TRUE], r.pos)
    [] OTHER -> Outcome("Panic", <<r.cause>>, r.world, r.pos)

parse_tile_new_cursor(w, d, p, c, cat) ==
  IF w.width = 0 THEN Outcome("Panic", <<"remainder with a divisor of zero">>, w, p)
  ELSE tile_result(update_tile(w, c % w.width, c \div w.width, d, 0, FALSE, cat))

parse_tile_column_major(w, d, p, c, cat) ==
  IF w.width = 0 THEN Outcome("Panic", <<"remainder with a divisor of zero">>, w, p)
  ELSE tile_result(update_tile(w, c \div w.width, c % w.width, d, p, FALSE, cat))

(* One iteration of the tile loop: the coordinates of tile `c`, then       *)
(* update_tile in append mode.  count % width aborts when width is 0.      *)
parse_tile(w, d, p, c, cat) ==
  IF w.width = 0 THEN Outcome("Panic", <<"remainder with a divisor of zero">>, w, p)
  ELSE tile_result(update_tile(w, c % w.width, c \div w.width, d, p, FALSE, cat))

read_dropped_item_uid_first(d, p) ==
  [uid |-> read_u32(d, p), id |-> read_u16(d, p + 4), x |-> read_u32(d, p + 6),
   y |-> read_u32(d, p + 10), count |-> read_u8(d, p + 14), flags |-> read_u8(d, p + 15)]

(* One 16-byte dropped-item record: id, x, y, count, flags, uid.  The two  *)
(* f32 fields are kept as their bit patterns.                              *)
read_dropped_item(d, p) ==
  [id |-> read_u16(d, p), x |-> read_u32(d, p + 2), y |-> read_u32(d, p + 6),
   count |-> read_u8(d, p + 10), flags |-> read_u8(d, p + 11),
   uid |-> read_u32(d, p + 12)]

DroppedFieldEnds == <<2, 6, 10, 11, 12, 16>>

DroppedFieldErrs ==
  <<"Failed to read dropped item ID", "Failed to read dropped item x position",
    "Failed to read dropped item y position", "Failed to read dropped item count",
    "Failed to read dropped item flags", "Failed to read dropped item UID">>

DroppedItemSize == 16

RECURSIVE read_dropped_items(_, _, _, _)
read_dropped_items(d, p, n, items) ==
  IF n = 0 THEN [ok |-> TRUE, err |-> <<>>, pos |-> p, items |-> items]
  ELSE IF CanRead(d, p, DroppedItemSize)
  THEN read_dropped_items(d, p + DroppedItemSize, n - 1, Append(items, read_dropped_item(d, p)))
  ELSE LET k == CHOOSE i \in 1..6 :
                  /\ ~CanRead(d, p, DroppedFieldEnds[i])
                  /\ \A j \in 1..(i - 1) : CanRead(d, p, DroppedFieldEnds[j])
       IN [ok |-> FALSE, err |-> <<DroppedFieldErrs[k]>>,
           pos |-> IF k = 1 THEN p ELSE p + DroppedFieldEnds[k - 1], items |-> items]

(* The 12 skipped bytes and the dropped-item list.                         *)
parse_dropped(w, d, p0) ==
  LET p == p0 + 12
  IN IF ~CanRead(d, p, 4) THEN Outcome("Err", <<"Failed to read dropped items count">>, w, p)
     ELSE
       LET w1 == [w EXCEPT !.dropped.items_count = read_u32(d, p)]
       IN IF ~CanRead(d, p + 4, 4)
          THEN Outcome("Err", <<"Failed to read last dropped item UID">>, w1, p + 4)
          ELSE
            LET w2 == [w1 EXCEPT !.dropped.last_dropped_item_uid = read_u32(d, p + 4)]
                r == read_dropped_items(d, p + 8, w2.dropped.items_count, w2.dropped.items)
                w3 == [w2 EXCEPT !.dropped.items = r.items]
            IN IF r.ok THEN Outcome("Ok", <<>>, w3, r.pos)
               ELSE Outcome("Err", r.err, w3, r.pos)

(* The weather trailer: base weather, an unused u16, current weather.      *)
parse_weather(w, d, p) ==
  IF ~CanRead(d, p, 2) THEN Outcome("Err", <<"Failed to read base weather">>, w, p)
  ELSE IF ~CanRead(d, p + 2, 2)
  THEN Outcome("Err", <<"Failed to read unknown weather field">>, w, p + 2)
  ELSE IF ~CanRead(d, p + 4, 2)
  THEN Outcome("Err", <<"Failed to read current weather">>, w, p + 4)
  ELSE Outcome("Ok", <<>>,
               [w EXCEPT !.base_weather = WeatherType_from(read_u16(d, p)),
                         !.current_weather = WeatherType_from(read_u16(d, p + 4))],
               p + 6)

(* World::parse as one call: the stages in their order.                    *)
RECURSIVE parse_tiles(_, _, _, _, _)
parse_tiles_next(r, d, c, cat) ==
  IF r.res = "Ok" THEN parse_tiles(r.world, d, r.pos, c + 1, cat) ELSE r

parse_tiles(w, d, p, c, cat) ==
  IF ~(c < w.tile_count) THEN Outcome("Ok", <<>>, w, p)
  ELSE parse_tiles_next(parse_tile(w, d, p, c, cat), d, c, cat)

parse_after_dropped(dr, d) ==
  IF dr.res # "Ok" THEN dr ELSE parse_weather(dr.world, d, dr.pos)

parse_after_tiles(t, d) ==
  IF t.res # "Ok" THEN t ELSE parse_after_dropped(parse_dropped(t.world, d, t.pos), d)

parse_after_header(h, d, cat) ==
  IF h.res # "Ok" THEN h ELSE parse_after_tiles(parse_tiles(h.world, d, h.pos, 0, cat), d)

parse(w0, d, cat) == parse_after_header(parse_header(w0, d), d, cat)

(***************************************************************************)
(* Inputs: byte buffers written field by field in the wire order, and      *)
(* every prefix of each of them.                                           *)
(***************************************************************************)
le16(v) == <<v % 256, (v \div 256) % 256>>

le32(v) == <<v % 256, (v \div 256) % 256, (v \div 65536) % 256, (v \div 16777216) % 256>>

RECURSIVE Zeros(_)
Zeros(n) == IF n = 0 THEN <<>> ELSE <<0>> \o Zeros(n - 1)

RECURSIVE Concat(_)
Concat(ss) == IF ss = <<>> THEN <<>> ELSE Head(ss) \o Concat(Tail(ss))

HeaderBytes(version, name, width, height, tile_count) ==
  le16(version) \o le32(0) \o le16(Len(name)) \o name
    \o le32(width) \o le32(height) \o le32(tile_count) \o Zeros(5)

TrailerBytes(drops, last_uid, base, current) ==
  Zeros(12) \o le32(Len(drops)) \o le32(last_uid) \o Concat(drops)
    \o le16(base) \o le16(0) \o le16(current)

CoreBytes(fg, bg, parent, flags) == le16(fg) \o le16(bg) \o le16(parent) \o le16(flags)

BasicTileBytes == CoreBytes(0, 0, 0, 0)

(* Tile records: a parent reference, ids above and at item_count, Seed and *)
(* ChemicalSource around the grow time of item 1, unmapped discriminants,  *)
(* an unwrapped arm (Mailbox), a Sign with parent, XML side-channel blocks.*)
SpecialTileBytes ==
  {CoreBytes(1, 0, 7, 2) \o le16(9),
   CoreBytes(4, 0, 0, 0),
   CoreBytes(0, 4, 0, 0),
   CoreBytes(3, 0, 0, 0),
   CoreBytes(0, 0, 0, 1) \o <<6>> \o le16(0) \o le16(1) \o <<65>> \o le16(0) \o <<1>>,
   CoreBytes(0, 0, 0, 3) \o le16(0) \o <<1>> \o le16(1) \o <<255>> \o <<0>>,
   CoreBytes(2, 0, 0, 0) \o le32(1) \o <<0>>,
   CoreBytes(2, 0, 0, 0) \o le32(1) \o <<255>>,
   CoreBytes(3, 0, 0, 1) \o <<8, 1>>}
  \cup {CoreBytes(1, 0, 0, 1) \o <<4>> \o le32(t) \o <<0>> : t \in 1..3}
  \cup {CoreBytes(1, 0, 0, 1) \o <<9>> \o le32(t) : t \in 1..3}
  \cup {CoreBytes(0, 0, 0, 1) \o <<k>> : k \in {5, 255}}

DropBytes == {le16(1) \o le32(2) \o le32(3) \o <<4, 5>> \o le32(6),
              le16(258) \o le32(0) \o le32(1065353216) \o <<255, 0>> \o le32(16909060)}

WeatherIds == {0, 1, 78, 79}

Versions == {MinVersion - 1, MinVersion, MinVersion + 1}

Names == {<<>>, <<65>>}

RECURSIVE SeqsUpTo(_, _)
SeqsUpTo(S, n) ==
  IF n = 0 THEN {<<>>}
  ELSE LET shorter == SeqsUpTo(S, n - 1)
       IN shorter \cup {Append(q, e) : q \in {r \in shorter : Len(r) = n - 1}, e \in S}

(* Tile grids of one row with at most one record that is not the basic one *)
GridBytes ==
  {Concat([i \in 1..n |-> BasicTileBytes]) : n \in 0..MaxTiles}
  \cup {Concat([i \in 1..n |-> IF i = k THEN t ELSE BasicTileBytes]) :
          n \in 1..MaxTiles, k \in 1..MaxTiles, t \in SpecialTileBytes}

FullBuffers ==
  {HeaderBytes(v, nm, w, h, tc)
     \o Concat([i \in 1..(IF tc > MaxTiles THEN 0 ELSE tc) |-> BasicTileBytes])
     \o TrailerBytes(<<>>, 0, 0, 0) :
       v \in Versions, nm \in Names, w \in 0..MaxDim, h \in 0..MaxDim,
       tc \in (0..MaxTiles) \cup {MaxTileCount, MaxTileCount + 1}}
  \cup {HeaderBytes(MinVersion, <<>>, n, 1, n) \o Concat([i \in 1..n |-> IF i = k THEN t ELSE BasicTileBytes])
          \o TrailerBytes(<<>>, 0, 0, 0) :
          n \in 1..MaxTiles, k \in 1..MaxTiles, t \in SpecialTileBytes}
  \cup {HeaderBytes(MinVersion, <<>>, 1, 1, 1) \o BasicTileBytes \o TrailerBytes(ds, 9, b, c) :
          ds \in SeqsUpTo(DropBytes, MaxDrops), b \in WeatherIds, c \in WeatherIds}

Prefixes(b) == {SubSeq(b, 1, n) : n \in 0..Len(b)}

Inputs == UNION {Prefixes(b) : b \in FullBuffers}

(* One-tile worlds that carry a 16-bit value v as the flags of the tile and *)
(* as the base weather id, and 65535 - v as the current weather id.  A     *)
(* record with has-parent set carries a parent reference, one with         *)
(* has-extra-data set an unmapped discriminant.                            *)
TileTail(v) ==
  (IF BitSet(v, 1) THEN le16(0) ELSE <<>>) \o (IF BitSet(v, 0) THEN <<0>> ELSE <<>>)

ConversionBuffers(values) ==
  {HeaderBytes(MinVersion, <<>>, 1, 1, 1) \o CoreBytes(0, 0, 0, v) \o TileTail(v)
     \o TrailerBytes(<<>>, 0, v, U16Mod - 1 - v) : v \in values}

(* Buffers a World parsed before the call under study: a 1 x 1 world of    *)
(* version 26 with flags 7, a name, a dropped item and weather ids 1 and   *)
(* 78; the same cut inside its dropped list; a header of version 24.       *)
PriorBuffer ==
  le16(MinVersion + 1) \o le32(7) \o le16(1) \o <<66>> \o le32(1) \o le32(1) \o le32(1)
    \o Zeros(5) \o BasicTileBytes
    \o TrailerBytes(<<le16(1) \o le32(2) \o le32(3) \o <<4, 5>> \o le32(6)>>, 9, 1, 78)

PriorBuffers ==
  {PriorBuffer, SubSeq(PriorBuffer, 1, Len(PriorBuffer) - 8), HeaderBytes(MinVersion - 1, <<>>, 1, 1, 1)}

(* Buffers of two calls that run side by side: a whole 2 x 1 world with a  *)
(* Seed tile and a dropped item, the same cut inside its trailer, a world  *)
(* with an item id out of range, a header of width 0, and a world whose    *)
(* Mailbox payload is cut.                                                 *)
SharedBuffer ==
  HeaderBytes(MinVersion, <<65>>, 2, 1, 2) \o BasicTileBytes
    \o CoreBytes(1, 0, 0, 1) \o <<4>> \o le32(2) \o <<0>>
    \o TrailerBytes(<<le16(1) \o le32(2) \o le32(3) \o <<4, 5>> \o le32(6)>>, 9, 1, 79)

SharedInputs ==
  {SharedBuffer,
   SubSeq(SharedBuffer, 1, Len(SharedBuffer) - 3),
   HeaderBytes(MinVersion, <<>>, 1, 1, 1) \o BasicTileBytes \o TrailerBytes(<<>>, 0, 0, 0),
   HeaderBytes(MinVersion, <<>>, 1, 1, 1) \o CoreBytes(4, 0, 0, 0) \o TrailerBytes(<<>>, 0, 0, 0),
   HeaderBytes(MinVersion, <<>>, 0, 0, 1) \o BasicTileBytes \o TrailerBytes(<<>>, 0, 0, 0),
   HeaderBytes(MinVersion, <<>>, 1, 1, 1) \o CoreBytes(0, 0, 0, 1) \o <<6>> \o le16(3)}

(* The catalog: items 0..2 exist, item 1 grows in 2 seconds, item 2 is an  *)
(* XML-classified object.                                                  *)
Catalogs ==
  {[item_count |-> 3,
    items |-> [id \in 0..2 |-> [grow_time |-> IF id = 1 THEN 2 ELSE id,
                                xml |-> id = 2]]]}

(* Catalogs a harvest query is made with: every grow_time 0, and no item.  *)
QueryCatalogs ==
  {[item_count |-> 3, items |-> [id \in 0..2 |-> [grow_time |-> 0, xml |-> FALSE]]],
   [item_count |-> 0, items |-> [id \in {} |-> [grow_time |-> 0, xml |-> FALSE]]]}

(* A catalog of 15377 items that holds the two items whose side-channel    *)
(* block is hard-coded and the item whose Lock payload has a trailing      *)
(* skip, none XML-classified, and their neighbours.                        *)
ExceptionCatalogs ==
  {[item_count |-> PartyProjectorId + 1,
    items |-> [id \in {0, LockSkipItemId - 1, LockSkipItemId, LatticeFenceRootsId - 1,
                       LatticeFenceRootsId, PartyProjectorId} |->
                 [grow_time |-> 0, xml |-> FALSE]]]}

(* A Lock record of item fg with the access list uids, followed by `tail`. *)
LockTileBytes(fg, uids, tail) ==
  CoreBytes(fg, 0, 0, 1) \o <<3, 5>> \o le32(77) \o le32(Len(uids))
    \o Concat([i \in 1..Len(uids) |-> le32(uids[i])]) \o <<9>> \o <<1, 2, 3, 4, 5, 6, 7>>
    \o tail

RECURSIVE Ones(_)
Ones(n) == IF n = 0 THEN <<>> ELSE <<255>> \o Ones(n - 1)

(* 1 x 1 worlds whose tile is one of these items, with and without a       *)
(* parent reference and a Sign payload before the block.                   *)
ExceptionTileBytes ==
  {CoreBytes(PartyProjectorId, 0, 0, 0) \o le32(1) \o <<0>>,
   CoreBytes(LatticeFenceRootsId, 0, 0, 0) \o le32(2) \o <<1, 0>>,
   CoreBytes(LatticeFenceRootsId, 0, 0, 0) \o le32(0),
   CoreBytes(LatticeFenceRootsId - 1, 0, 0, 0),
   CoreBytes(PartyProjectorId, 0, 5, 3) \o le16(9) \o <<1>> \o le16(1) \o <<66>> \o <<0>>
     \o le32(1) \o <<0>>,
   LockTileBytes(LockSkipItemId, <<11, 12>>, Ones(16)),
   LockTileBytes(LockSkipItemId, <<>>, <<>>),
   LockTileBytes(LockSkipItemId - 1, <<11>>, <<>>),
   LockTileBytes(0, <<>>, <<>>),
   CoreBytes(LockSkipItemId, 0, 0, 1) \o <<1>> \o le16(1) \o <<66>> \o <<0>>,
   CoreBytes(0, 0, 0, 1) \o <<54>> \o le16(13) \o Ones(3) \o le32(7) \o Ones(2) \o le32(8)}

ExceptionInputs ==
  UNION {Prefixes(HeaderBytes(MinVersion, <<>>, 1, 1, 1) \o t \o TrailerBytes(<<>>, 0, 0, 0)) :
           t \in ExceptionTileBytes}

(* Worlds a single-tile update meets: parsed grids of up to MaxTiles tiles *)
(* of item 1 over background 2, whole or still short of width * height.    *)
GridTileBytes == CoreBytes(1, 2, 7, 0)

UpdateWorlds(cat) ==
  {parse(World_new,
         HeaderBytes(MinVersion, <<65>>, w, h, tc) \o Concat([i \in 1..tc |-> GridTileBytes])
           \o TrailerBytes(<<>>, 0, 1, 2),
         cat).world :
     w \in 1..MaxDim, h \in 1..MaxDim, tc \in 0..MaxTiles}

(* The buffers of an update: one tile record, whole or cut.                *)
UpdateInputs ==
  {BasicTileBytes, SubSeq(BasicTileBytes, 1, 7), <<>>} \cup SpecialTileBytes
     \cup {SubSeq(t, 1, Len(t) - 1) : t \in SpecialTileBytes}

(***************************************************************************)
(* The state machine of one parse call.                                    *)
(***************************************************************************)
ParseCall == [op |-> "parse"]

NoOther == [pc |-> "none"]

(* The entry of World::parse on the World w: a cursor at offset 0.         *)
ParseEntry(w) ==
  /\ world = w
  /\ pos = 0
  /\ count = 0
  /\ pc = "header"
  /\ result = "none"
  /\ err = <<>>
  /\ call = ParseCall

Init ==
  /\ \/ data \in Inputs /\ catalog \in Catalogs
     \/ data \in ExceptionInputs /\ catalog \in ExceptionCatalogs
  /\ ParseEntry(World_new)
  /\ other = NoOther

(* A World is new or was the target of an earlier parse call.              *)
PriorWorlds(cat) == {World_new} \cup {parse(World_new, b, cat).world : b \in PriorBuffers}

(* The entry of World::parse on a World that may have been parsed into.    *)
InitReparse ==
  /\ data \in Inputs
  /\ catalog \in Catalogs
  /\ \E w \in PriorWorlds(catalog) : ParseEntry(w)
  /\ other = NoOther

(* The entry of World::parse on the buffers of the 16-bit conversions.     *)
InitConvert ==
  /\ data \in ConversionBuffers(0..(U16Mod - 1))
  /\ catalog \in Catalogs
  /\ ParseEntry(World_new)
  /\ other = NoOther

(* The second call at the entry of World::parse on its own new World.      *)
OtherEntry(d) ==
  [data |-> d, world |-> World_new, pos |-> 0, count |-> 0, pc |-> "header",
   result |-> "none", err |-> <<>>]

(* Two parse calls on different buffers that share the catalog.            *)
InitShared ==
  /\ data \in SharedInputs
  /\ catalog \in Catalogs
  /\ ParseEntry(World_new)
  /\ \E d \in SharedInputs \ {data} : other = OtherEntry(d)

NextStage_dropped_first(stage, w, c) ==
  CASE stage = "header" -> "dropped"
    [] stage = "dropped" -> IF c < w.tile_count THEN "tiles" ELSE "weather"
    [] stage = "tiles" -> IF c < w.tile_count THEN "tiles" ELSE "weather"
    [] OTHER -> "done"

(* A call of World::update_tile on a parsed World with a Tile that carries *)
(* the coordinates (x, y), in append or in replace mode.                   *)
UpdateCalls ==
  {[op |-> "update_tile", x |-> x, y |-> y, replace |-> r] :
     x \in 0..MaxDim, y \in 0..MaxDim, r \in BOOLEAN}

InitUpdate ==
  /\ data \in UpdateInputs
  /\ catalog \in Catalogs
  /\ world \in UpdateWorlds(catalog)
  /\ pos = 0
  /\ count = 0
  /\ pc = "update"
  /\ result = "none"
  /\ err = <<>>
  /\ call \in UpdateCalls
  /\ other = NoOther

(* The stage after `stage` when it ends Ok with c tiles decoded.           *)
NextStage(stage, w, c) ==
  CASE stage \in {"header", "tiles"} -> IF c < w.tile_count THEN "tiles" ELSE "dropped"
    [] stage = "dropped" -> "weather"
    [] OTHER -> "done"

(* Takes the outcome r of a stage that counts `inc` tiles when it ends Ok: *)
(* parse goes on to the next stage, or returns.                            *)
Finish(r, stage, inc) ==
  /\ world' = r.world
  /\ pos' = r.pos
  /\ err' = r.err
  /\ IF r.res = "Ok"
     THEN /\ count' = count + inc
          /\ pc' = NextStage(stage, r.world, count + inc)
          /\ result' = IF stage = "weather" THEN "Ok" ELSE "none"
     ELSE /\ count' = count
          /\ pc' = "done"
          /\ result' = r.res
  /\ UNCHANGED <<data, catalog, call, other>>

ParseHeader ==
  /\ pc = "header"
  /\ Finish(parse_header(world, data), "header", 0)

ParseTile ==
  /\ pc = "tiles"
  /\ count < world.tile_count
  /\ Finish(parse_tile(world, data, pos, count, catalog), "tiles", 1)

ParseDropped ==
  /\ pc = "dropped"
  /\ Finish(parse_dropped(world, data, pos), "dropped", 0)

ParseWeather ==
  /\ pc = "weather"
  /\ Finish(parse_weather(world, data, pos), "weather", 0)

Next == ParseHeader \/ ParseTile \/ ParseDropped \/ ParseWeather

(* update_tile returns r to its caller.                                    *)
UpdateTileReturns(r) ==
  /\ world' = r.world
  /\ pos' = r.pos
  /\ result' = r.res
  /\ err' = IF r.res = "Ok" THEN <<>> ELSE <<r.cause>>
  /\ pc' = "done"
  /\ UNCHANGED <<data, catalog, count, call, other>>

UpdateTile ==
  /\ pc = "update"
  /\ UpdateTileReturns(update_tile(world, call.x, call.y, data, pos, call.replace, catalog))

(* The stage of the second call c, run on its own World and cursor with    *)
(* the shared catalog.                                                     *)
OtherStage(c, cat) ==
  CASE c.pc = "header" -> parse_header(c.world, c.data)
    [] c.pc = "tiles" -> parse_tile(c.world, c.data, c.pos, c.count, cat)
    [] c.pc = "dropped" -> parse_dropped(c.world, c.data, c.pos)
    [] OTHER -> parse_weather(c.world, c.data, c.pos)

OtherAfter_stale_cursor(c, r, inc) ==
  IF r.res = "Ok"
  THEN [c EXCEPT !.world = r.world, !.err = r.err, !.count = c.count + inc,
                 !.pc = NextStage(c.pc, r.world, c.count + inc),
                 !.result = IF c.pc = "weather" THEN "Ok" ELSE "none"]
  ELSE [c EXCEPT !.world = r.world, !.err = r.err, !.pc = "done", !.result = r.res]

(* The second call takes the outcome r of its stage, as Finish does for    *)
(* the first.                                                              *)
OtherAfter(c, r, inc) ==
  IF r.res = "Ok"
  THEN [c EXCEPT !.world = r.world, !.pos = r.pos, !.err = r.err, !.count = c.count + inc,
                 !.pc = NextStage(c.pc, r.world, c.count + inc),
                 !.result = IF c.pc = "weather" THEN "Ok" ELSE "none"]
  ELSE [c EXCEPT !.world = r.world, !.pos = r.pos, !.err = r.err, !.pc = "done",
                 !.result = r.res]

OtherStep ==
  /\ other.pc \in {"header", "tiles", "dropped", "weather"}
  /\ other' = OtherAfter(other, OtherStage(other, catalog), IF other.pc = "tiles" THEN 1 ELSE 0)
  /\ UNCHANGED <<data, catalog, world, pos, count, pc, result, err, call>>

NextShared == Next \/ OtherStep

Spec == Init /\ [][Next]_vars

SpecConvert == InitConvert /\ [][Next]_vars

SpecReparse == InitReparse /\ [][Next]_vars

SpecShared == InitShared /\ [][NextShared]_vars

SpecUpdate == InitUpdate /\ [][UpdateTile]_vars

(* Catalogs whose item_count lies on both sides of the u16 range; the      *)
(* records 0..2 exist in each.                                             *)
ItemCounts == {0, 1, 3, U16Mod - 1, U16Mod, U16Mod + 1, U16Mod + 3, 2 * U16Mod}

CountCatalogs ==
  {[item_count |-> n, items |-> [id \in 0..2 |-> [grow_time |-> id, xml |-> FALSE]]] :
     n \in ItemCounts}

ItemIds == {0, 1, 2, 3, 4, U16Mod - 1}

(* One update_tile call on a plain record with the item ids fg and bg.     *)
InitItemCount ==
  /\ data \in {CoreBytes(fg, bg, 0, 0) : fg \in ItemIds, bg \in ItemIds}
  /\ catalog \in CountCatalogs
  /\ world = World_new
  /\ pos = 0
  /\ count = 0
  /\ pc = "update"
  /\ result = "none"
  /\ err = <<>>
  /\ call \in {[op |-> "update_tile", x |-> 0, y |-> 0, replace |-> r] : r \in BOOLEAN}
  /\ other = NoOther

SpecItemCount == InitItemCount /\ [][UpdateTile]_vars

(* Header dimensions on both sides of 2^16, and coordinates to query.      *)
WideDims == {1, 2, U16Mod, U16Mod + 1}

QueryCoords == {0, 1, 16383, U16Mod}

WideBuffers ==
  {HeaderBytes(MinVersion, <<>>, w, h, tc) \o Concat([i \in 1..tc |-> BasicTileBytes])
     \o TrailerBytes(<<>>, 0, 0, 0) :
     w \in WideDims, h \in WideDims, tc \in 0..MaxTiles}

QueryOps == {"get_tile_mut", "get_tile", "tile_index", "is_valid", "total_tiles"}

(* One accessor call on a parsed World.  overflow_checks is the build      *)
(* profile: u32 arithmetic that overflows panics with it and wraps without.*)
QueryCalls ==
  {[op |-> o, x |-> x, y |-> y, overflow_checks |-> b, ret |-> None] :
     o \in QueryOps, x \in QueryCoords, y \in QueryCoords, b \in BOOLEAN}

InitQuery ==
  /\ data \in WideBuffers
  /\ catalog \in Catalogs
  /\ world = parse(World_new, data, catalog).world
  /\ pos = 0
  /\ count = 0
  /\ pc = "query"
  /\ result = "none"
  /\ err = <<>>
  /\ call \in QueryCalls
  /\ other = NoOther

(* The accessor returns ret, or panics on an overflow check.               *)
QueryReturns(panics, ret) ==
  /\ pc' = "done"
  /\ result' = IF panics THEN "Panic" ELSE "Ok"
  /\ call' = [call EXCEPT !.ret = IF panics THEN None ELSE Some(ret)]
  /\ UNCHANGED <<data, catalog, world, pos, count, err, other>>

InGrid(w, x, y) == x < w.width /\ y < w.height

IndexPanics == call.overflow_checks /\ InGrid(world, call.x, call.y)
                 /\ mul_add_overflows(call.y, world.width, call.x)

SizePanics == call.overflow_checks /\ mul_add_overflows(world.width, world.height, 0)

GetTile ==
  /\ pc = "query"
  /\ call.op \in {"get_tile", "get_tile_mut"}
  /\ QueryReturns(IndexPanics, get_tile(world, call.x, call.y))

TileIndex ==
  /\ pc = "query"
  /\ call.op = "tile_index"
  /\ QueryReturns(IndexPanics, tile_index(world, call.x, call.y))

IsValid ==
  /\ pc = "query"
  /\ call.op = "is_valid"
  /\ QueryReturns(world.width > 0 /\ world.height > 0 /\ ~world.is_error /\ SizePanics,
                  is_valid(world))

TotalTiles ==
  /\ pc = "query"
  /\ call.op = "total_tiles"
  /\ QueryReturns(SizePanics, total_tiles(world))

NextQuery == GetTile \/ TileIndex \/ IsValid \/ TotalTiles

SpecQuery == InitQuery /\ [][NextQuery]_vars

(***************************************************************************)
(* Properties.                                                             *)
(***************************************************************************)
Returned == pc = "done"

(* The tile record the next ParseTile step decodes has an item id above    *)
(* catalog.item_count.                                                     *)
NextTileIdExceeds ==
  /\ pc = "tiles"
  /\ world.width # 0
  /\ CanRead(data, pos, 8)
  /\ \/ ReadLE(data, pos, 2) > catalog.item_count
     \/ ReadLE(data, pos + 2, 2) > catalog.item_count

(* C1: when the tile loop decodes a record whose foreground or background  *)
(* id exceeds catalog.item_count, parse returns an error with is_error     *)
(* set, having read only the 8 core bytes of that record, and tiles ends   *)
(* at that record's index + 1; nothing is decoded after a return.          *)
C1_BadItemIdAborts ==
  [][/\ pc # "done"
     /\ NextTileIdExceeds =>
          /\ pc' = "done"
          /\ result' = "Err"
          /\ world'.is_error
          /\ pos' = pos + 8
          /\ count' = count
          /\ Len(world'.tiles) = count + 1]_vars

C1_Witness ==
  /\ Returned
  /\ result = "Err"
  /\ err = <<"Failed to parse tile", "Item ID out of range">>
  /\ count = 1
  /\ Len(world.tiles) = 2
  /\ Len(data) > pos

(* C2: on return from parse, is_error is true after an error and false     *)
(* after Ok.                                                               *)
C2_ErrorFlagMatchesResult ==
  Returned => /\ result = "Err" => world.is_error
              /\ result = "Ok" => ~world.is_error

(* C3: parse never aborts the process.                                     *)
C3_NeverPanics == result # "Panic"

ReturnedOk == Returned /\ result = "Ok"

Coords == 0..(MaxDim + 1)

(* C4: after a successful parse of a header with tile_count =             *)
(* width * height, tiles.len() = tile_count and get_tile(x, y) is a tile   *)
(* exactly for x < width and y < height.                                   *)
C4_DenseGrid ==
  (ReturnedOk /\ world.tile_count = world.width * world.height) =>
    /\ Len(world.tiles) = world.tile_count
    /\ \A x \in Coords, y \in Coords :
         get_tile(world, x, y).some <=> (x < world.width /\ y < world.height)

C4_Witness ==
  /\ ReturnedOk
  /\ world.tile_count = world.width * world.height
  /\ world.height = 2
  /\ Len(world.tiles) = 2
  /\ get_tile(world, 0, 1).some
  /\ ~get_tile(world, 1, 0).some

(* C5: after every successful parse, whatever the header carries,          *)
(* tiles.len() = width * height and tile_index(x, y) is Some(y*width + x), *)
(* an index inside tiles, exactly for x < width and y < height.            *)
C5_LenIsWidthTimesHeight ==
  ReturnedOk =>
    /\ Len(world.tiles) = world.width * world.height
    /\ \A x \in Coords, y \in Coords :
         IF x < world.width /\ y < world.height
         THEN /\ tile_index(world, x, y) = Some(y * world.width + x)
              /\ y * world.width + x < Len(world.tiles)
         ELSE tile_index(world, x, y) = None

(* The dropped-item record that starts at offset o, read field by field.   *)
DropAt(o) ==
  [id |-> ReadLE(data, o, 2), x |-> ReadLE(data, o + 2, 4), y |-> ReadLE(data, o + 6, 4),
   count |-> ReadLE(data, o + 10, 1), flags |-> ReadLE(data, o + 11, 1),
   uid |-> ReadLE(data, o + 12, 4)]

DroppedListRead == pc = "dropped" /\ pc' = "weather"

(* C6 (amended): a dropped-item list of count N advances the cursor by     *)
(* exactly N*16 bytes after the two u32 list-header fields, each record    *)
(* decoded in the order id (u16), x (f32), y (f32), count (u8), flags (u8),*)
(* uid (u32).                                                              *)
C6_DroppedRecordsAre16Bytes ==
  [][DroppedListRead =>
       LET n == world'.dropped.items_count
           base == pos + 12 + 8
       IN /\ n = ReadLE(data, pos + 12, 4)
          /\ pos' = base + n * 16
          /\ Len(world'.dropped.items) = n
          /\ \A i \in 1..n : world'.dropped.items[i] = DropAt(base + 16 * (i - 1))]_vars

C6_Witness ==
  /\ pc = "weather"
  /\ world.dropped.items_count = 2
  /\ Len(world.dropped.items) = 2
  /\ world.dropped.items[1] # world.dropped.items[2]

(* C6 as claimed: the list advances the cursor by exactly N*12 bytes.      *)
C6_DroppedRecordsAre12Bytes ==
  [][DroppedListRead => pos' = pos + 12 + 8 + world'.dropped.items_count * 12]_vars

UnmappedDiscriminants == {0, 5, 13, 22, 29, 46, 64, 70, 71, 76, 78} \cup (82..255)

(* The offset of the discriminant byte of the tile record at the cursor.   *)
DiscriminantOffset ==
  pos + 8 + (IF (ReadLE(data, pos + 6, 2) \div 2) % 2 = 1 THEN 2 ELSE 0)

(* The next ParseTile step decodes a record with has-extra-data set and an *)
(* unmapped discriminant byte, of an existing item without side-channel    *)
(* block.                                                                  *)
NextTileHasUnmappedDiscriminant ==
  /\ pc = "tiles"
  /\ world.width # 0
  /\ CanRead(data, pos, 8)
  /\ ReadLE(data, pos, 2) <= catalog.item_count
  /\ ReadLE(data, pos + 2, 2) <= catalog.item_count
  /\ ReadLE(data, pos + 6, 2) % 2 = 1
  /\ CanRead(data, DiscriminantOffset, 1)
  /\ ReadLE(data, DiscriminantOffset, 1) \in UnmappedDiscriminants
  /\ ReadLE(data, pos, 2) \in DOMAIN catalog.items
  /\ ~catalog.items[ReadLE(data, pos, 2)].xml
  /\ ReadLE(data, pos, 2) \notin {PartyProjectorId, LatticeFenceRootsId}

(* C7: a tile with has-extra-data set and an unmapped discriminant byte is *)
(* decoded without error, stays Basic, and its extra-data section takes    *)
(* exactly the discriminant byte.                                          *)
C7_UnmappedDiscriminantIsBasic ==
  [][NextTileHasUnmappedDiscriminant =>
       /\ result' \in {"none", "Ok"}
       /\ pos' = DiscriminantOffset + 1
       /\ Len(world'.tiles) = Len(world.tiles) + 1
       /\ world'.tiles[Len(world'.tiles)].tile_type = Basic
       /\ get_extra_tile_data(world'.tiles[Len(world'.tiles)], data, DiscriminantOffset + 1,
                              ReadLE(data, DiscriminantOffset, 1), catalog).res = "Ok"]_vars

C7_Witness ==
  /\ ReturnedOk
  /\ \E i \in 1..Len(world.tiles) :
       /\ "HAS_EXTRA_DATA" \in world.tiles[i].flags
       /\ world.tiles[i].tile_type = Basic

GrowTimeOf(tile) == catalog.items[tile.foreground_item_id].grow_time

(* C8: every decoded Seed and ChemicalSource tile has ready_to_harvest     *)
(* true exactly when its time_passed >= the grow_time of its foreground    *)
(* item.                                                                   *)
C8_ReadyToHarvest ==
  \A i \in 1..Len(world.tiles) :
    world.tiles[i].tile_type.tag \in {"Seed", "ChemicalSource"} =>
      (world.tiles[i].tile_type.ready_to_harvest
         <=> world.tiles[i].tile_type.time_passed >= GrowTimeOf(world.tiles[i]))

C8_Witness ==
  \E i \in 1..Len(world.tiles) :
    /\ world.tiles[i].tile_type.tag \in {"Seed", "ChemicalSource"}
    /\ world.tiles[i].tile_type.time_passed = GrowTimeOf(world.tiles[i])
    /\ world.tiles[i].tile_type.ready_to_harvest

(* C9: when a buffer parses successfully and is consumed whole, the parse  *)
(* of every strict prefix of it returns an error.                          *)
C9_StrictPrefixesReturnErr ==
  (ReturnedOk /\ pos = Len(data)) =>
    \A n \in 0..(Len(data) - 1) :
      parse(World_new, SubSeq(data, 1, n), catalog).res = "Err"

(* C10: a header version below 0x19 makes parse return an error with      *)
(* is_error set before any further field is read; a version >= 0x19 is     *)
(* accepted and stored in World.version.                                   *)
C10_VersionCheck ==
  (pc # "header" /\ Len(data) >= 2) =>
    IF ReadLE(data, 0, 2) < 25
    THEN /\ Returned
         /\ result = "Err"
         /\ world.is_error
         /\ pos = 2
         /\ world.width = 0 /\ world.height = 0 /\ world.tile_count = 0
         /\ world.tiles = <<>>
    ELSE /\ world.version = ReadLE(data, 0, 2)
         /\ err # <<"Unsupported version">>

C10_Witness ==
  /\ Returned
  /\ err = <<"Unsupported version">>
  /\ ReadLE(data, 0, 2) = 24
  /\ Len(data) > 20

(* The offset just after the world name, where the width field starts.     *)
NameEnd == 8 + ReadLE(data, 6, 2)

(* The buffer holds a whole header of a supported version.                 *)
HeaderComplete ==
  /\ Len(data) >= 8
  /\ ReadLE(data, 0, 2) >= 25
  /\ Len(data) >= NameEnd + 12

(* C11: a header whose tile_count exceeds 0xFE01 makes parse return an     *)
(* error with is_error set right after the header, with no tile decoded    *)
(* and tiles empty; after a successful parse tile_count <= 0xFE01.         *)
C11_TileCountCeiling ==
  /\ (pc # "header" /\ HeaderComplete /\ ReadLE(data, NameEnd + 8, 4) > 65025) =>
        /\ Returned
        /\ result = "Err"
        /\ world.is_error
        /\ world.tiles = <<>>
        /\ count = 0
        /\ pos = NameEnd + 17
  /\ ReturnedOk => world.tile_count <= 65025

C11_Witness ==
  /\ Returned
  /\ err = <<"Tile count too large">>
  /\ world.tile_count = 65026
  /\ world.width > 0
  /\ world.is_error

WeatherVariants == {WeatherNames[i] : i \in 1..Len(WeatherNames)}

(* C12: the weather trailer decodes for every pair of 16-bit ids: parse    *)
(* returns Ok, both weather fields are variants of WeatherType, and an id  *)
(* above 78 gives Default.                                                 *)
C12_WeatherIsTotal ==
  [][(pc = "weather" /\ CanRead(data, pos, 6)) =>
       /\ result' = "Ok"
       /\ world'.base_weather \in WeatherVariants
       /\ world'.current_weather \in WeatherVariants
       /\ ReadLE(data, pos, 2) > 78 => world'.base_weather = "Default"
       /\ ReadLE(data, pos + 4, 2) > 78 => world'.current_weather = "Default"]_vars

C12_Witness ==
  /\ ReturnedOk
  /\ ReadLE(data, pos - 6, 2) = 65535
  /\ ReadLE(data, pos - 2, 2) = 0
  /\ world.base_weather = "Default"
  /\ world.current_weather = "Default"

(* The record at the cursor has ids 0 and, after its flags, exactly what   *)
(* has-parent and has-extra-data ask for: a parent reference and an        *)
(* unmapped discriminant 0.                                                *)
NextTileIsFlagsOnly ==
  /\ pc = "tiles"
  /\ world.width # 0
  /\ CanRead(data, pos, 8)
  /\ ReadLE(data, pos, 2) = 0
  /\ ReadLE(data, pos + 2, 2) = 0
  /\ 0 \in DOMAIN catalog.items
  /\ ~catalog.items[0].xml
  /\ (ReadLE(data, pos + 6, 2) \div 2) % 2 = 1 => CanRead(data, pos + 8, 2)
  /\ ReadLE(data, pos + 6, 2) % 2 = 1 =>
        /\ CanRead(data, DiscriminantOffset, 1)
        /\ ReadLE(data, DiscriminantOffset, 1) = 0

(* C13: whatever 16-bit value v the flags field of a tile record holds,    *)
(* the record is decoded, the bits of the stored TileFlags are v again,    *)
(* and each of the 16 named flags is set exactly when its bit of v is.     *)
C13_FlagsRoundTrip ==
  [][NextTileIsFlagsOnly =>
       LET v == ReadLE(data, pos + 6, 2)
           tile == world'.tiles[Len(world'.tiles)]
       IN /\ result' \in {"none", "Ok"}
          /\ Len(world'.tiles) = Len(world.tiles) + 1
          /\ bits(tile.flags) = v
          /\ tile.flags_number = v
          /\ \A i \in 0..15 : FlagNames[i + 1] \in tile.flags <=> BitSet(v, i)]_vars

C13_Witness ==
  /\ ReturnedOk
  /\ Len(world.tiles) = 1
  /\ world.tiles[1].flags_number = 65535
  /\ bits(world.tiles[1].flags) = 65535
  /\ Cardinality(world.tiles[1].flags) = 16

(* Version 0x19, flags 0, empty name, width 1, height 1, tile_count 1, 5   *)
(* reserved bytes, one all-zero tile record, 12 reserved bytes, a dropped  *)
(* count and last uid of 0, weather 0 / 0 / 0.                             *)
MinimalBuffer ==
  <<25, 0>> \o Zeros(4) \o Zeros(2) \o <<1, 0, 0, 0>> \o <<1, 0, 0, 0>> \o <<1, 0, 0, 0>>
    \o Zeros(5) \o Zeros(8) \o Zeros(12) \o Zeros(4) \o Zeros(4) \o Zeros(6)

(* C14: with item 0 in the catalog and not XML-classified, the parse of    *)
(* the minimal buffer returns Ok with one Basic tile, no dropped items and *)
(* both weather fields Default.                                            *)
C14_MinimalBufferParses ==
  (/\ Returned
   /\ data = MinimalBuffer
   /\ 0 \in DOMAIN catalog.items
   /\ ~catalog.items[0].xml) =>
     /\ result = "Ok"
     /\ Len(world.tiles) = 1
     /\ world.tiles[1].tile_type = Basic
     /\ world.dropped.items = <<>>
     /\ world.dropped.items_count = 0
     /\ world.base_weather = "Default"
     /\ world.current_weather = "Default"
     /\ pos = Len(data)

C14_Witness ==
  /\ ReturnedOk
  /\ data = MinimalBuffer
  /\ ~catalog.items[0].xml
  /\ world.width = 1
  /\ world.height = 1
  /\ world.version = 25

(* C15: when parse returns, the World is the one that the same buffer and  *)
(* catalog give on a new World, whatever the World held before the call.   *)
C15_WorldIndependentOfPrior ==
  (Returned /\ result \in {"Ok", "Err"}) => world = parse(World_new, data, catalog).world

(* C16: with two parse calls interleaved step by step on one catalog, each *)
(* call returns the result and the World it returns when run alone, and    *)
(* no step changes the catalog.                                            *)
C16_CallsDoNotInterfere ==
  /\ [](Returned =>
          /\ result = parse(World_new, data, catalog).res
          /\ world = parse(World_new, data, catalog).world)
  /\ [](other.pc = "done" =>
          /\ other.result = parse(World_new, other.data, catalog).res
          /\ other.world = parse(World_new, other.data, catalog).world)
  /\ [][catalog' = catalog]_vars

C16_Witness ==
  /\ Returned
  /\ other.pc = "done"
  /\ result = "Ok"
  /\ other.result = "Err"
  /\ Len(world.tiles) = 2
  /\ world.tiles[2].tile_type.tag = "Seed"
  /\ Len(other.world.tiles) = 2

(* C17: a parse run goes header -> tile records -> 12 skipped bytes and    *)
(* dropped-item list -> weather trailer and returns; the dropped-item list *)
(* is entered only with exactly tile_count tiles decoded, the weather      *)
(* fields are assigned only by the weather stage after every dropped-item  *)
(* record was read, and nothing runs after the return.                     *)
C17_StageOrder ==
  [][/\ pc = "header" => pc' \in {"tiles", "dropped", "done"}
     /\ pc = "tiles" => pc' \in {"tiles", "dropped", "done"}
     /\ pc = "dropped" => pc' \in {"weather", "done"}
     /\ pc = "weather" => pc' = "done"
     /\ pc # "done"
     /\ (pc = "header" /\ pc' # "done") => pos' = NameEnd + 17
     /\ pc' = "tiles" => count' < world'.tile_count /\ Len(world'.tiles) = count'
     /\ pc' = "dropped" =>
          /\ count' = world'.tile_count
          /\ Len(world'.tiles) = world'.tile_count
          /\ ~world'.is_error
     /\ world'.dropped # world.dropped =>
          /\ pc = "dropped"
          /\ count = world.tile_count
          /\ pos' >= pos + 12 + 4
     /\ pc' = "weather" => Len(world'.dropped.items) = world'.dropped.items_count
     /\ (\/ world'.base_weather # world.base_weather
         \/ world'.current_weather # world.current_weather) =>
          /\ pc = "weather"
          /\ Len(world.dropped.items) = world.dropped.items_count
          /\ pos' = pos + 6]_vars

C17_Witness ==
  /\ ReturnedOk
  /\ count = 1
  /\ world.tile_count = 1
  /\ Len(world.dropped.items) = 2
  /\ world.base_weather = "Candyland"
  /\ world.current_weather = "Sunset"
  /\ pos = Len(data)

(* The ParseTile step stores the record at the cursor as a decoded tile.   *)
TileDecoded ==
  /\ pc = "tiles"
  /\ result' = "none"
  /\ Len(world'.tiles) = Len(world.tiles) + 1

(* The offset of the section that follows the extra data of the record at  *)
(* the cursor, for the tile the step stores.                               *)
ExtraDataEnd(tile) ==
  IF ReadLE(data, pos + 6, 2) % 2 = 1
  THEN get_extra_tile_data(tile, data, DiscriminantOffset + 1,
                           ReadLE(data, DiscriminantOffset, 1), catalog).pos
  ELSE DiscriminantOffset

(* C18: a decoded tile record takes 8 bytes of core fields (fg, bg, parent *)
(* index, flags), then 2 bytes iff has-parent is set, then a discriminant  *)
(* byte and the variant's payload iff has-extra-data is set, then a u32    *)
(* length L and L bytes iff the item is XML-classified or has id 15376 or  *)
(* 8642, and nothing else.                                                 *)
C18_TileRecordLayout ==
  [][TileDecoded =>
       LET tile == world'.tiles[Len(world'.tiles)]
           fg == ReadLE(data, pos, 2)
           block == catalog.items[fg].xml \/ fg \in {15376, 8642}
           q == ExtraDataEnd(tile)
       IN /\ tile.foreground_item_id = fg
          /\ tile.background_item_id = ReadLE(data, pos + 2, 2)
          /\ tile.parent_block_index = ReadLE(data, pos + 4, 2)
          /\ tile.flags_number = ReadLE(data, pos + 6, 2)
          /\ ReadLE(data, pos + 6, 2) % 2 = 0 => tile.tile_type = Basic /\ q = DiscriminantOffset
          /\ ReadLE(data, pos + 6, 2) % 2 = 1 => q >= DiscriminantOffset + 1
          /\ block => CanRead(data, q, 4) /\ pos' = q + 4 + ReadLE(data, q, 4)
          /\ ~block => pos' = q]_vars

C18_Witness ==
  /\ ReturnedOk
  /\ Len(world.tiles) = 1
  /\ world.tiles[1].foreground_item_id = 15376
  /\ world.tiles[1].tile_type.tag = "Sign"
  /\ "HAS_PARENT" \in world.tiles[1].flags
  /\ ~catalog.items[15376].xml
  /\ pos = 25 + 8 + 2 + (1 + 3 + 1) + (4 + 1) + 26

(* The row-major index of the position the update_tile call names.         *)
CallIndex == call.y * world.width + call.x

(* The update_tile call is about to read a record whose foreground or      *)
(* background id exceeds catalog.item_count, for the grid position that is *)
(* next to be appended (append mode) or that holds a tile (replace mode).  *)
UpdateRejectsItemId ==
  /\ pc = "update"
  /\ CanRead(data, pos, 8)
  /\ \/ ReadLE(data, pos, 2) > catalog.item_count
     \/ ReadLE(data, pos + 2, 2) > catalog.item_count
  /\ call.x < world.width
  /\ IF call.replace THEN CallIndex < Len(world.tiles) ELSE CallIndex = Len(world.tiles)

(* C19: when update_tile rejects a record for an out-of-range item id, in  *)
(* append and in replace mode alike, it returns an error, the world is     *)
(* marked errored and the tile at row-major index y*width + x is a         *)
(* zero-valued Basic placeholder with the coordinates (x, y).              *)
C19_PlaceholderAtPosition ==
  [][UpdateRejectsItemId =>
       /\ result' = "Err"
       /\ world'.is_error
       /\ CallIndex < Len(world'.tiles)
       /\ LET tile == world'.tiles[CallIndex + 1]
          IN /\ tile.foreground_item_id = 0
             /\ tile.background_item_id = 0
             /\ tile.parent_block_index = 0
             /\ tile.tile_type = Basic
             /\ tile.x = call.x
             /\ tile.y = call.y]_vars

(* The tile that update_tile decodes from the record at the cursor, when   *)
(* the record decodes.                                                     *)
Decoded == update_tile(world, call.x, call.y, data, pos, FALSE, catalog)

DecodedTile == Decoded.world.tiles[Len(Decoded.world.tiles)]

(* C20: a decoded tile is appended when replace is false (one more tile,   *)
(* the others unchanged); when replace is true it overwrites the tile at   *)
(* row-major index y*width + x with length and other tiles unchanged, or,  *)
(* when that index is not below tiles.len(), an error is returned and      *)
(* tiles is unchanged.  No other field of the World changes.               *)
C20_AppendOrOverwrite ==
  [][(pc = "update" /\ Decoded.res = "Ok") =>
       /\ DecodedTile.x = call.x
       /\ DecodedTile.y = call.y
       /\ DecodedTile.foreground_item_id = ReadLE(data, pos, 2)
       /\ [world' EXCEPT !.tiles = world.tiles] = world
       /\ IF ~call.replace
          THEN /\ result' = "Ok"
               /\ world'.tiles = Append(world.tiles, DecodedTile)
          ELSE IF CallIndex < Len(world.tiles)
          THEN /\ result' = "Ok"
               /\ Len(world'.tiles) = Len(world.tiles)
               /\ world'.tiles[CallIndex + 1] = DecodedTile
               /\ \A i \in 1..Len(world.tiles) :
                    i # CallIndex + 1 => world'.tiles[i] = world.tiles[i]
          ELSE /\ result' = "Err"
               /\ world'.tiles = world.tiles]_vars

C20_Witness ==
  /\ pc = "done"
  /\ call.op = "update_tile"
  /\ call.replace
  /\ result = "Ok"
  /\ call.x = 1
  /\ Len(world.tiles) = 2
  /\ world.tiles[1].foreground_item_id = 1
  /\ world.tiles[1].tile_type = Basic
  /\ world.tiles[2].tile_type.tag = "Seed"
  /\ world.tiles[2].x = 1

(* The record the ParseTile step decodes has has-extra-data set and the    *)
(* discriminant t, and its item has no side-channel block.                 *)
DecodedVariant(t) ==
  /\ TileDecoded
  /\ ReadLE(data, pos + 6, 2) % 2 = 1
  /\ ReadLE(data, DiscriminantOffset, 1) = t
  /\ ~catalog.items[ReadLE(data, pos, 2)].xml
  /\ ReadLE(data, pos, 2) \notin {15376, 8642}

(* C21: a decoded Lock payload takes 1 + 4 + 4 + 4*access_count + 1 + 7    *)
(* bytes with access_uids.len() = access_count, and 16 bytes more exactly  *)
(* when the foreground item id is 5814; a Sign payload of item 5814 takes  *)
(* its 2 + length + 1 bytes and no more.                                   *)
C21_LockPayload ==
  [][/\ DecodedVariant(3) =>
          LET p == DiscriminantOffset + 1
              n == ReadLE(data, p + 5, 4)
              tile == world'.tiles[Len(world'.tiles)]
          IN /\ tile.tile_type.tag = "Lock"
             /\ tile.tile_type.access_count = n
             /\ Len(tile.tile_type.access_uids) = n
             /\ \A i \in 1..n : tile.tile_type.access_uids[i] = ReadLE(data, p + 9 + 4 * (i - 1), 4)
             /\ pos' = p + 1 + 4 + 4 + 4 * n + 1 + 7
                        + (IF ReadLE(data, pos, 2) = 5814 THEN 16 ELSE 0)
     /\ DecodedVariant(1) =>
          pos' = DiscriminantOffset + 1 + 2 + ReadLE(data, DiscriminantOffset + 1, 2) + 1]_vars

C21_Witness ==
  /\ ReturnedOk
  /\ Len(world.tiles) = 1
  /\ world.tiles[1].foreground_item_id = 5814
  /\ world.tiles[1].tile_type.tag = "Lock"
  /\ world.tiles[1].tile_type.access_uids = <<11, 12>>
  /\ world.tiles[1].tile_type.minimum_level = 9
  /\ pos = Len(data)

(* C22: after a successful parse the tile at tiles[i] carries x = i %      *)
(* width and y = i / width, and a tile that get_tile(x, y) returns carries *)
(* the queried x and y.                                                    *)
C22_TileCoordinates ==
  ReturnedOk =>
    /\ \A i \in 0..(Len(world.tiles) - 1) :
         /\ world.tiles[i + 1].x = i % world.width
         /\ world.tiles[i + 1].y = i \div world.width
    /\ \A x \in Coords, y \in Coords :
         get_tile(world, x, y).some =>
           /\ get_tile(world, x, y).value.x = x
           /\ get_tile(world, x, y).value.y = y

C22_Witness ==
  /\ ReturnedOk
  /\ world.width = 2
  /\ world.height = 2
  /\ Len(world.tiles) = 2
  /\ get_tile(world, 1, 0).some
  /\ get_tile(world, 1, 0).value.x = 1
  /\ ~get_tile(world, 0, 1).some

C24_InvalidAfterError ==
  (Returned /\ result = "Err") => ~is_valid(world)

(* The record the next ParseTile step decodes has both ids within          *)
(* item_count and a foreground id without a catalog record, and its extra  *)
(* data, if any, is whole.                                                 *)
NextTileItemMissing ==
  /\ pc = "tiles"
  /\ world.width # 0
  /\ CanRead(data, pos, 8)
  /\ ReadLE(data, pos, 2) <= catalog.item_count
  /\ ReadLE(data, pos + 2, 2) <= catalog.item_count
  /\ ReadLE(data, pos, 2) \notin DOMAIN catalog.items
  /\ CanRead(data, pos + 8, DiscriminantOffset - (pos + 8))
  /\ ReadLE(data, pos + 6, 2) % 2 = 1 =>
        /\ CanRead(data, DiscriminantOffset, 1)
        /\ get_extra_tile_data(Tile_new(ReadLE(data, pos, 2), 0, 0, {}, 0, 0, 0), data,
                               DiscriminantOffset + 1, ReadLE(data, DiscriminantOffset, 1),
                               catalog).res # "Panic"

(* C25: after a successful parse every tile's foreground id has a catalog  *)
(* record; a record whose ids pass the bound check but whose foreground id *)
(* has no catalog record makes parse return an error with is_error set,    *)
(* and no tile is stored for it.                                           *)
C25_ForegroundResolves ==
  /\ [](ReturnedOk =>
          \A i \in 1..Len(world.tiles) :
            world.tiles[i].foreground_item_id \in DOMAIN catalog.items)
  /\ [][NextTileItemMissing =>
          /\ pc' = "done"
          /\ result' = "Err"
          /\ world'.is_error
          /\ world'.tiles = world.tiles]_vars

C25_Witness ==
  /\ Returned
  /\ err = <<"Failed to parse tile", "Failed to get item">>
  /\ world.is_error
  /\ count = 1
  /\ Len(world.tiles) = 1
  /\ ReadLE(data, pos - 10, 2) = catalog.item_count
  /\ ReadLE(data, pos - 2, 2) = 264

(* C26: update_tile rejects a record as out of range exactly when one of   *)
(* its 16-bit item ids is numerically greater than the catalog's 32-bit    *)
(* item_count, for every item_count, 65536 and larger included.            *)
C26_NumericBoundCheck ==
  [][(pc = "update" /\ CanRead(data, pos, 8)) =>
       ((err' = <<"Item ID out of range">>) <=>
          \/ ReadLE(data, pos, 2) > catalog.item_count
          \/ ReadLE(data, pos + 2, 2) > catalog.item_count)]_vars

(* C27: after a successful parse every tile whose has-extra-data flag      *)
(* (bit 0x01) is clear has tile_type Basic; a decoded tile is non-Basic    *)
(* only if its has-extra-data flag is set and its discriminant byte is a   *)
(* mapped value, whose variant it then carries.                            *)
C27_BasicWithoutExtraData ==
  /\ [](ReturnedOk =>
          \A i \in 1..Len(world.tiles) :
            (world.tiles[i].flags_number % 2 = 0 \/ "HAS_EXTRA_DATA" \notin world.tiles[i].flags)
              => world.tiles[i].tile_type = Basic)
  /\ [][(TileDecoded /\ world'.tiles[Len(world'.tiles)].tile_type # Basic) =>
          /\ ReadLE(data, pos + 6, 2) % 2 = 1
          /\ "HAS_EXTRA_DATA" \in world'.tiles[Len(world'.tiles)].flags
          /\ CanRead(data, DiscriminantOffset, 1)
          /\ ReadLE(data, DiscriminantOffset, 1) \in MappedTypes
          /\ world'.tiles[Len(world'.tiles)].tile_type.tag
               = VariantName(ReadLE(data, DiscriminantOffset, 1))]_vars

C27_Witness ==
  /\ ReturnedOk
  /\ \E i, j \in 1..Len(world.tiles) :
       /\ world.tiles[i].flags_number % 2 = 0
       /\ world.tiles[i].tile_type = Basic
       /\ world.tiles[j].flags_number % 2 = 1
       /\ world.tiles[j].tile_type # Basic

(* C28: after a successful parse dropped.items has items_count entries, in *)
(* the order of their 16-byte records in the buffer; after reset, and so   *)
(* once parse has started, whatever the World held before, the dropped     *)
(* list is empty with items_count = 0 and last_dropped_item_uid = 0 until  *)
(* the list is read.                                                       *)
C28_DroppedList ==
  /\ [](ReturnedOk =>
          LET n == world.dropped.items_count
          IN /\ Len(world.dropped.items) = n
             /\ \A i \in 1..Len(world.dropped.items) :
                  /\ pos - 6 - 16 * (n - i + 1) >= 0
                  /\ world.dropped.items[i] = DropAt(pos - 6 - 16 * (n - i + 1)))
  /\ [](reset(world).dropped = Dropped_clear)
  /\ [][pc = "header" => world'.dropped = Dropped_clear]_vars
  /\ [](pc \in {"tiles", "dropped"} => world.dropped = Dropped_clear)

C28_Witness ==
  /\ ReturnedOk
  /\ world.dropped.items_count = 2
  /\ Len(world.dropped.items) = 2
  /\ world.dropped.items[1] # world.dropped.items[2]
  /\ world.dropped.last_dropped_item_uid # 0

Growing(tile) == tile.tile_type.tag \in {"Seed", "ChemicalSource"}

(* The condition under which a Seed or ChemicalSource tile is harvestable  *)
(* with the catalog cat.                                                   *)
Grown(tile, cat) ==
  \/ tile.tile_type.ready_to_harvest
  \/ /\ tile.foreground_item_id \in DOMAIN cat.items
     /\ tile.tile_type.elapsed >= cat.items[tile.foreground_item_id].grow_time

(* C29: harvestable returns Ok(true) for a Seed or ChemicalSource tile     *)
(* exactly when its ready_to_harvest is true or its elapsed seconds are >= *)
(* the grow_time of its foreground item, which for a tile decoded by parse *)
(* and the catalog of that parse is its ready_to_harvest; it returns       *)
(* Ok(false) for every other tile_type whatever the catalog; is_harvestable*)
(* returns Ok(false) where get_tile is None and the tile's result          *)
(* elsewhere.                                                              *)
C29_Harvestable ==
  /\ \A i \in 1..Len(world.tiles) : \A cat \in QueryCatalogs \cup {catalog} :
       LET tile == world.tiles[i]
       IN IF Growing(tile)
          THEN /\ (harvestable(tile, cat) = HarvestResult("Ok", TRUE)) <=> Grown(tile, cat)
               /\ harvestable(tile, catalog) = HarvestResult("Ok", tile.tile_type.ready_to_harvest)
          ELSE harvestable(tile, cat) = HarvestResult("Ok", FALSE)
  /\ \A x, y \in 0..(MaxDim + 1) : \A cat \in QueryCatalogs \cup {catalog} :
       IF get_tile(world, x, y) = None
       THEN is_harvestable(world, x, y, cat) = HarvestResult("Ok", FALSE)
       ELSE is_harvestable(world, x, y, cat) = harvestable(get_tile(world, x, y).value, cat)

C29_Witness ==
  /\ ReturnedOk
  /\ \E x, y \in 0..MaxDim : \E cat \in QueryCatalogs :
       /\ get_tile(world, x, y) # None
       /\ Growing(get_tile(world, x, y).value)
       /\ ~get_tile(world, x, y).value.tile_type.ready_to_harvest
       /\ is_harvestable(world, x, y, cat) = HarvestResult("Ok", TRUE)
       /\ is_harvestable(world, x, y, catalog) = HarvestResult("Ok", FALSE)
       /\ get_tile(world, x, y + 1) = None
       /\ is_harvestable(world, x, y + 1, cat) = HarvestResult("Ok", FALSE)

(* v is exactly a * b + c, for c < b, told by division so that no product  *)
(* is formed.                                                              *)
IsProductSum(v, a, b, c) == b > 0 /\ v \div b = a /\ v % b = c

(* a * b + c < n for c < b and a small n.                                  *)
ProductSumBelow(a, b, c, n) == c < n /\ a <= (n - 1 - c) \div b

(* C30: for the width and height of any header and every x < width,        *)
(* y < height, tile_index, get_tile and get_tile_mut use the index         *)
(* y*width + x itself, and total_tiles and is_valid the product            *)
(* width*height itself, with no 32-bit wraparound and no failure.          *)
C30_ExactIndexArithmetic ==
  [][pc = "query" =>
       /\ result' = "Ok"
       /\ (call.op = "tile_index" /\ InGrid(world, call.x, call.y)) =>
            /\ call'.ret.value.some
            /\ IsProductSum(call'.ret.value.value, call.y, world.width, call.x)
       /\ (call.op \in {"get_tile", "get_tile_mut"} /\ InGrid(world, call.x, call.y)) =>
            (call'.ret.value.some
               <=> ProductSumBelow(call.y, world.width, call.x, Len(world.tiles)))
       /\ call.op = "total_tiles" =>
            \/ world.width = 0 /\ call'.ret.value = 0
            \/ IsProductSum(call'.ret.value, world.height, world.width, 0)
       /\ call.op = "is_valid" =>
            (call'.ret.value <=>
               /\ world.height > 0
               /\ ~world.is_error
               /\ IsProductSum(Len(world.tiles), world.height, world.width, 0))]_vars

====
